---- MODULE Spec2Model ----
(***************************************************************************)
(* Model of src/network/Network.cpp: the cURL request queue (CurlRequests), *)
(* the TCP connection (SocketConnection), the listener (SocketTcpSServer)   *)
(* and the Network facade.                                                 *)
(*                                                                         *)
(* The specifications of the module:                                       *)
(*   SpecHttp   - get()/post()/update() on the request queue;               *)
(*   SpecConn   - one SocketConnection, its background thread and the host  *)
(*                thread's recv()/close();                                  *)
(*   SpecNet    - SpecConn with the host thread's Network::update();        *)
(*   SpecSend   - SpecConn with send() in place of recv();                  *)
(*   SpecReg    - connect(), openServer(), close() and update() on the      *)
(*                registries, without recv();                               *)
(*   SpecClose  - close() called by the host and by another thread;         *)
(*   SpecServer - a Listener, its accept thread and its connection.         *)
(***************************************************************************)
EXTENDS Integers, Sequences, FiniteSets, TLC

\* ------------------------------------------------------------------------
\* Bounds of the model
\* ------------------------------------------------------------------------
MaxReq == 3          \* number of get()/post() submissions explored
MaxBody == 1         \* bytes one transfer writes through write_callback
MaxPollFail == 1     \* failing curl_multi_perform calls explored
MAX_INBUF == 2       \* capacity of the inbound queue, the 1 << 20 of
                     \* listenLoop scaled down to the size of the model
MaxBatch == 2        \* bytes one recvsocket call returns (buffer.size())
MaxRecvLen == 2      \* largest length passed to recv()
INT_MAX == 3         \* std::numeric_limits<int>::max(), the width of int
                     \* scaled down to the size of the model
MaxSendLen == 4      \* largest length passed to send()
MaxSends == 1        \* send() calls explored
MaxConnects == 1     \* connection ids Network::connect may take
MaxServers == 1      \* listener ids Network::openServer may take
RequestSize == 1     \* CURLINFO_REQUEST_SIZE of a transfer
HeaderSize == 1      \* CURLINFO_HEADER_SIZE of a transfer

\* ------------------------------------------------------------------------
\* Program constants
\* ------------------------------------------------------------------------
HTTP_OK == 200
HTTP_BAD_GATEWAY == 502
LONG_MAX == 2147483647   \* std::numeric_limits<long>::max(), 32-bit long

VARIABLES
    \* CurlRequests
    url,             \* std::string url; "" means "no active request"
    onResponse,      \* id of the request whose onResponse is installed, 0 = empty
    onReject,        \* id of the request whose onReject is installed, 0 = empty
    buffer,          \* std::vector<char> buffer
    requests,        \* std::queue<Request> requests
    reqTotalUpload,  \* CurlRequests::totalUpload
    reqTotalDownload,\* CurlRequests::totalDownload
    \* the cURL handles (library state reached through the API calls)
    curlOpts,        \* options last set on the easy handle
    inMulti,         \* easy handle is added to the multi handle
    xfer,            \* transfer of the easy handle: "none", "running", "done"
    xferOut,         \* outcome of a finished transfer: [result, response]
    \* history
    nextId,          \* submission counter: the next request is number nextId
    started,         \* ids of the requests processRequest has started
    xferReq,         \* id of the request the running transfer was added for
    written,         \* bytes write_callback received during this transfer
    log,             \* callback invocations, in order
    \* SocketConnection
    state,           \* std::atomic<ConnectionState> state
    thread,          \* std::unique_ptr<std::thread> thread: "null" or "set"
    readBatch,       \* std::vector<char> readBatch, the inbound queue
    recvBuffer,      \* util::Buffer<char> buffer: the batch recvsocket returned
    mutex,           \* std::mutex mutex: "free" or the thread holding it
    sockTotalUpload, \* SocketConnection::totalUpload
    sockTotalDownload,\* SocketConnection::totalDownload
    closes,          \* number of closesocket(descriptor) calls so far
    tpc,             \* position of the connection's background thread
    treg,            \* register of the background thread (connect result,
                     \* value read from totalDownload)
    streamPos,       \* bytes the peer's stream has handed to recvsocket
    \* Network
    connections,     \* ids registered in Network::connections
    nextConnection,  \* Network::nextConnection
    connectionsMutex,\* Network::connectionsMutex: "free" or the holder
    netTotalUpload,  \* Network::totalUpload
    netTotalDownload,\* Network::totalDownload
    connId,          \* id the connection was registered under, 0 = not yet
    origin,          \* "none", "client" (Network::connect) or "accepted"
    \* the host thread (caller of the facade and of the Connection)
    hpc,             \* position of the host thread
    hreg,            \* locals of the operation the host thread is in
    sends,           \* number of send() calls started
    lastSend,        \* the last send(): length and result
    \* history
    appended,        \* bytes the receive loop appended to readBatch
    delivered,       \* bytes returned by recv() calls, concatenated
    discarded,       \* bytes removed by close(discardAll = true)
    dropped,         \* the batch the receive loop dropped on overflow
    downloadCounted, \* sum of the increments of totalDownload
    lastRecv,        \* the last recv(): state, queue and result
    recvCalls,       \* number of recv() calls that returned bytes
    erased,          \* what Network::update saw when it erased the entry
    \* the onConnected callback of Network::connect
    onConnected,     \* calls of the callback and what its lookup found
    handshake,       \* result of connectsocket: "none", "ok" or "failed"
    \* SocketTcpSServer
    open,            \* std::atomic<bool> open
    sthread,         \* std::unique_ptr<std::thread> thread: "null" or "set"
    clients,         \* std::vector<u64id_t> clients
    clientsMutex,    \* std::mutex clientsMutex: "free" or the holder
    sdesc,           \* number of closesocket calls on the listening socket
    apc,             \* position of the accept thread; "none": no Listener
    sid,             \* id the Listener is registered under, 0 = none
    handled,         \* calls of the handler of startListen, in order
    acceptedBy,      \* id of the Listener that accepted the connection
    serverClosed,    \* a close() of the Listener by the host has returned
    closedByServer,  \* closeSocket called close() on the connection
    \* Network: the listeners and the ids handed out
    servers,         \* ids registered in Network::servers
    nextServer,      \* Network::nextServer
    issued,          \* connection ids handed out, in order
    issuedServers,   \* listener ids handed out, in order
    \* a thread other than the host inside SocketConnection::close()
    cpc,             \* its position
    teardowns,       \* executions of lines 527-537 by close() calls
    \* the bytes of the send() calls that returned their length
    uploaded         \* sum of the totals added at line 510

httpVars == <<url, onResponse, onReject, buffer, requests, reqTotalUpload,
              reqTotalDownload, curlOpts, inMulti, xfer, xferOut, nextId,
              started, xferReq, written, log>>

connVars == <<state, thread, readBatch, recvBuffer, mutex, sockTotalUpload,
              sockTotalDownload, closes, tpc, treg, streamPos, appended,
              delivered, discarded, dropped, downloadCounted, lastRecv,
              recvCalls>>

netVars == <<connections, nextConnection, connectionsMutex, netTotalUpload,
             netTotalDownload, connId, origin, erased>>

hostVars == <<hpc, hreg, sends, lastSend>>

cbVars == <<onConnected, handshake>>

srvVars == <<open, sthread, clients, clientsMutex, sdesc, apc, sid, handled,
             acceptedBy, serverClosed, closedByServer>>

regVars == <<servers, nextServer, issued, issuedServers>>

closerVars == <<cpc, teardowns>>

sentVars == <<uploaded>>
vars == <<httpVars, connVars, netVars, hostVars, cbVars, srvVars, regVars,
          closerVars, sentVars>>

\* ------------------------------------------------------------------------
\* Inputs
\* ------------------------------------------------------------------------
Urls == {"", "u"}
MaxSizes == {0, 1024}
Bytes == {"o", "k"}
Chunks == {<<>>} \cup {<<b>> : b \in Bytes}
CurlmCodes == {"CURLM_OK", "CURLM_ERR"}
\* what curl reports for a finished transfer: CURLcode and CURLINFO_RESPONSE_CODE
\* (a transfer that failed below HTTP has no response code: 0)
Outcomes == {[result |-> "CURLE_OK", response |-> HTTP_OK],
             [result |-> "CURLE_OK", response |-> 404],
             [result |-> "CURLE_ERR", response |-> 0]}
NoOutcome == [result |-> "none", response |-> 0]
Progress == {NoOutcome} \cup Outcomes

\* ------------------------------------------------------------------------
\* CurlRequests as a record, so that the handlers compose as in the source
\* ------------------------------------------------------------------------
Http == [url |-> url, onResponse |-> onResponse, onReject |-> onReject,
         buffer |-> buffer, requests |-> requests,
         totalUpload |-> reqTotalUpload, totalDownload |-> reqTotalDownload,
         opts |-> curlOpts, inMulti |-> inMulti, xfer |-> xfer,
         xferOut |-> xferOut, started |-> started, xferReq |-> xferReq,
         written |-> written, log |-> log]

SetHttp(s) ==
    /\ url' = s.url
    /\ onResponse' = s.onResponse
    /\ onReject' = s.onReject
    /\ buffer' = s.buffer
    /\ requests' = s.requests
    /\ reqTotalUpload' = s.totalUpload
    /\ reqTotalDownload' = s.totalDownload
    /\ curlOpts' = s.opts
    /\ inMulti' = s.inMulti
    /\ xfer' = s.xfer
    /\ xferOut' = s.xferOut
    /\ started' = s.started
    /\ xferReq' = s.xferReq
    /\ written' = s.written
    /\ log' = s.log

\* F applied to the value of x
Then(x, F(_)) == CHOOSE r \in {F(v) : v \in {x}} : TRUE

\* struct Request
Request(id, type, u, maxSize) ==
    [id |-> id, type |-> type, url |-> u, maxSize |-> maxSize]

\* if (onReject) onReject(code): the call is made when a callback is installed
Reject(s, code, cause) ==
    IF s.onReject = 0 THEN s
    ELSE [s EXCEPT !.log = Append(@, [id |-> s.onReject, kind |-> "reject",
                                      code |-> code, body |-> <<>>,
                                      cause |-> cause, xreq |-> s.xferReq,
                                      xres |-> s.xferOut.result,
                                      xcode |-> s.xferOut.response,
                                      xbody |-> s.written])]

\* if (onResponse) onResponse(std::move(buffer))
Respond(s, cause) ==
    IF s.onResponse = 0 THEN s
    ELSE [s EXCEPT !.log = Append(@, [id |-> s.onResponse, kind |-> "response",
                                      code |-> HTTP_OK, body |-> s.buffer,
                                      cause |-> cause, xreq |-> s.xferReq,
                                      xres |-> s.xferOut.result,
                                      xcode |-> s.xferOut.response,
                                      xbody |-> s.written]),
                   !.buffer = <<>>]

\* CURLOPT_MAXFILESIZE value
MaxFileSize(maxSize) == IF maxSize = 0 THEN LONG_MAX ELSE maxSize

\* curl_multi_add_handle: CURLM_ADDED_ALREADY leaves the multi handle as it is
curl_multi_add_handle(s, id) ==
    IF s.inMulti THEN s
    ELSE [s EXCEPT !.inMulti = TRUE, !.xfer = "running", !.xferReq = id,
                   !.xferOut = NoOutcome, !.written = <<>>]

\* curl_multi_remove_handle
curl_multi_remove_handle(s) ==
    [s EXCEPT !.inMulti = FALSE, !.xfer = "none"]

\* curl_multi_perform returning res: a running transfer may hand a chunk to
\* write_callback and may finish with an outcome
curl_multi_perform(s, res, chunk, fin) ==
    IF res # "CURLM_OK" \/ s.xfer # "running" THEN s
    ELSE [s EXCEPT !.buffer = @ \o chunk,
                   !.written = @ \o chunk,
                   !.xfer = IF fin = NoOutcome THEN "running" ELSE "done",
                   !.xferOut = fin]

\* CurlRequests::processRequest
processRequest(s, request, res, chunk, fin) ==
    IF s.url # ""
    THEN [s EXCEPT !.requests = Append(@, request)]
    ELSE Then([s EXCEPT !.onResponse = request.id,
                        !.onReject = request.id,
                        !.url = request.url,
                        !.buffer = <<>>,
                        !.started = @ \cup {request.id},
                        !.opts = [url |-> request.url,
                                  post |-> request.type = "POST",
                                  maxFileSize |-> MaxFileSize(request.maxSize)]],
         LAMBDA s1 :
         Then(curl_multi_add_handle(s1, request.id), LAMBDA s2 :
         Then(curl_multi_perform(s2, res, chunk, fin), LAMBDA s3 :
            IF res # "CURLM_OK"
            THEN [Reject(s3, HTTP_BAD_GATEWAY, "start") EXCEPT !.url = ""]
            ELSE s3)))

\* CurlRequests::update, lines 194-219: a message of the multi handle
readMessage(s, up, hd) ==
    IF s.xfer # "done" THEN s
    ELSE Then(curl_multi_remove_handle(s), LAMBDA s1 :
         Then(IF s.xferOut.response = HTTP_OK
              THEN Then([s1 EXCEPT
                           !.totalUpload = @ + up,
                           !.totalDownload = @ + hd + Len(s1.buffer)],
                        LAMBDA s2 : Respond(s2, "done"))
              ELSE Reject(s1, s.xferOut.response, "done"),
              LAMBDA s3 : [s3 EXCEPT !.url = ""]))

\* CurlRequests::update, lines 221-225: start the head of the queue
startNext(s, res, chunk, fin) ==
    IF s.url = "" /\ s.requests # <<>>
    THEN Then([s EXCEPT !.requests = Tail(@)], LAMBDA s1 :
            processRequest(s1, Head(s.requests), res, chunk, fin))
    ELSE s

\* CurlRequests::update
update(s, res, chunk, fin, up, hd, res2) ==
    Then(curl_multi_perform(s, res, chunk, fin), LAMBDA s1 :
       IF res # "CURLM_OK"
       THEN Then(Reject(s1, HTTP_BAD_GATEWAY, "poll"), LAMBDA s2 :
               [curl_multi_remove_handle(s2) EXCEPT !.url = ""])
       ELSE Then(readMessage(s1, up, hd), LAMBDA s2 :
               startNext(s2, res2, <<>>, NoOutcome)))

\* ------------------------------------------------------------------------
\* Initial state
\* ------------------------------------------------------------------------
HttpInit ==
    /\ url = ""
    /\ onResponse = 0
    /\ onReject = 0
    /\ buffer = <<>>
    /\ requests = <<>>
    /\ reqTotalUpload = 0
    /\ reqTotalDownload = 0
    /\ curlOpts = [url |-> "", post |-> FALSE, maxFileSize |-> 0]
    /\ inMulti = FALSE
    /\ xfer = "none"
    /\ xferOut = NoOutcome
    /\ nextId = 1
    /\ started = {}
    /\ xferReq = 0
    /\ written = <<>>
    /\ log = <<>>

NoRecv == [st |-> "none", before |-> 0, length |-> 0, ret |-> 0]
NoErase == [done |-> FALSE, queue |-> 0, st |-> "none"]
NoOp == [op |-> "none", discardAll |-> FALSE, length |-> 0, total |-> 0,
         size |-> 0, wire |-> <<>>, up0 |-> 0]
NoSend == [length |-> 0, ret |-> 0, entry |-> "none", st |-> "none",
           up0 |-> 0, up1 |-> 0, sent |-> <<>>, fatal |-> FALSE]

\* a SocketConnection after its constructor
ConnInit ==
    /\ state = "INITIAL"
    /\ thread = "null"
    /\ readBatch = <<>>
    /\ recvBuffer = <<>>
    /\ mutex = "free"
    /\ sockTotalUpload = 0
    /\ sockTotalDownload = 0
    /\ closes = 0
    /\ tpc = "none"
    /\ treg = 0
    /\ streamPos = 0
    /\ appended = <<>>
    /\ delivered = <<>>
    /\ discarded = <<>>
    /\ dropped = <<>>
    /\ downloadCounted = 0
    /\ lastRecv = NoRecv
    /\ recvCalls = 0

\* the Network facade after its constructor
NetInit ==
    /\ connections = {}
    /\ nextConnection = 1
    /\ connectionsMutex = "free"
    /\ netTotalUpload = 0
    /\ netTotalDownload = 0
    /\ connId = 0
    /\ origin = "none"
    /\ erased = NoErase

HostInit ==
    /\ hpc = "idle"
    /\ hreg = NoOp
    /\ sends = 0
    /\ lastSend = NoSend

NoCallback == [calls |-> 0, found |-> FALSE, handshake |-> "none"]

\* no onConnected call yet, no connectsocket result yet
CallbackInit ==
    /\ onConnected = NoCallback
    /\ handshake = "none"

\* no SocketTcpSServer exists before Network::openServer
ServerInit ==
    /\ open = FALSE
    /\ sthread = "null"
    /\ clients = <<>>
    /\ clientsMutex = "free"
    /\ sdesc = 0
    /\ apc = "none"
    /\ sid = 0
    /\ handled = <<>>
    /\ acceptedBy = 0
    /\ serverClosed = FALSE
    /\ closedByServer = FALSE

\* the listener registry and the ids handed out so far
RegistryInit ==
    /\ servers = {}
    /\ nextServer = 1
    /\ issued = <<>>
    /\ issuedServers = <<>>

CloserInit ==
    /\ cpc = "idle"
    /\ teardowns = 0

SentInit == uploaded = 0

Init ==
    /\ HttpInit /\ ConnInit /\ NetInit /\ HostInit
    /\ CallbackInit /\ ServerInit /\ RegistryInit /\ CloserInit
    /\ SentInit

\* ------------------------------------------------------------------------
\* The request queue: get(), post()
\* ------------------------------------------------------------------------
\* number of callbacks a failing curl_multi_perform has caused so far
PollFails(s) ==
    Cardinality({i \in DOMAIN s.log : s.log[i].cause \in {"poll", "start"}})

\* a failing curl_multi_perform is explored MaxPollFail times
PollCodes(s) == IF PollFails(s) < MaxPollFail THEN CurlmCodes ELSE {"CURLM_OK"}

\* the chunks a running transfer may still write
ChunksLeft == {c \in Chunks : Len(written) + Len(c) <= MaxBody}

Submit(type) ==
    /\ hpc = "idle"
    /\ nextId <= MaxReq
    /\ \E u \in Urls, maxSize \in MaxSizes, res \in PollCodes(Http) :
          \E t \in {processRequest(Http, Request(nextId, type, u, maxSize),
                                 res, <<>>, NoOutcome)} : SetHttp(t)
    /\ nextId' = nextId + 1
    /\ UNCHANGED <<connVars, netVars, hostVars>>
    /\ UNCHANGED <<cbVars, srvVars, regVars, closerVars>>
    /\ UNCHANGED sentVars

\* CurlRequests::get / Network::get
Get == Submit("GET")

\* CurlRequests::post / Network::post
Post == Submit("POST")

\* CurlRequests::update, the first statement of Network::update
RequestsUpdate ==
    /\ \E res \in PollCodes(Http), chunk \in ChunksLeft, fin \in Progress,
          res2 \in PollCodes(Http) :
             \E t \in {update(Http, res, chunk, fin, RequestSize, HeaderSize,
                            res2)} : SetHttp(t)
    /\ UNCHANGED nextId

\* ------------------------------------------------------------------------
\* SocketConnection: the background thread
\* ------------------------------------------------------------------------
Min(a, b) == IF a < b THEN a ELSE b

\* length of the peer's byte stream; byte k of the stream has the value k
MaxStream == MAX_INBUF + MaxBatch

StreamBytes(from, size) == [k \in 1..size |-> from + k]

\* line 332
connectSocket_begin ==
    /\ tpc = "connectSocket"
    /\ state' = "CONNECTING"
    /\ tpc' = "connectsocket"
    /\ UNCHANGED <<thread, readBatch, recvBuffer, mutex, sockTotalUpload,
                   sockTotalDownload, closes, treg, streamPos, appended,
                   delivered, discarded, dropped, downloadCounted, lastRecv,
                   recvCalls>>
    /\ UNCHANGED <<httpVars, netVars, hostVars>>
    /\ UNCHANGED <<cbVars, srvVars, regVars, closerVars>>
    /\ UNCHANGED sentVars

\* lines 334-336: connectsocket returns; it cannot succeed on a descriptor
\* that was already released
connectSocket_call ==
    /\ tpc = "connectsocket"
    /\ \E res \in {0, -1} :
          /\ res = 0 => closes = 0
          /\ treg' = res
          /\ handshake' = IF res = 0 THEN "ok" ELSE "failed"
    /\ tpc' = "connectResult"
    /\ UNCHANGED <<state, thread, readBatch, recvBuffer, mutex,
                   sockTotalUpload, sockTotalDownload, closes, streamPos,
                   appended, delivered, discarded, dropped, downloadCounted,
                   lastRecv, recvCalls>>
    /\ UNCHANGED <<httpVars, netVars, hostVars>>
    /\ UNCHANGED <<onConnected, srvVars, regVars, closerVars>>
    /\ UNCHANGED sentVars

\* lines 337-339 and 344-345
connectSocket_result ==
    /\ tpc = "connectResult"
    /\ IF treg < 0
       THEN /\ closes' = closes + 1
            /\ tpc' = "connectFailed"
            /\ UNCHANGED state
       ELSE /\ state' = "CONNECTED"
            /\ tpc' = "connected"
            /\ UNCHANGED closes
    /\ treg' = 0
    /\ UNCHANGED <<thread, readBatch, recvBuffer, mutex, sockTotalUpload,
                   sockTotalDownload, streamPos, appended, delivered,
                   discarded, dropped, downloadCounted, lastRecv, recvCalls>>
    /\ UNCHANGED <<httpVars, netVars, hostVars>>
    /\ UNCHANGED <<cbVars, srvVars, regVars, closerVars>>
    /\ UNCHANGED sentVars

\* lines 340-342
connectSocket_failed ==
    /\ tpc = "connectFailed"
    /\ state' = "CLOSED"
    /\ tpc' = "connected"
    /\ UNCHANGED <<thread, readBatch, recvBuffer, mutex, sockTotalUpload,
                   sockTotalDownload, closes, treg, streamPos, appended,
                   delivered, discarded, dropped, downloadCounted, lastRecv,
                   recvCalls>>
    /\ UNCHANGED <<httpVars, netVars, hostVars>>
    /\ UNCHANGED <<cbVars, srvVars, regVars, closerVars>>
    /\ UNCHANGED sentVars

\* the callback invoked whatever the state but CONNECTING
shouldCallback_NotConnecting(st) == st # "CONNECTING"

\* line 438: the test the callback and the receive loop rest on
shouldCallback(st) == st = "CONNECTED"

\* lines 436-438: the thread of connect() after connectSocket()
connect_thread ==
    /\ tpc = "connected"
    /\ tpc' = IF shouldCallback(state) THEN "callback" ELSE "done"
    /\ UNCHANGED <<state, thread, readBatch, recvBuffer, mutex,
                   sockTotalUpload, sockTotalDownload, closes, treg,
                   streamPos, appended, delivered, discarded, dropped,
                   downloadCounted, lastRecv, recvCalls>>
    /\ UNCHANGED <<httpVars, netVars, hostVars>>
    /\ UNCHANGED <<cbVars, srvVars, regVars, closerVars>>
    /\ UNCHANGED sentVars

\* Network::getConnection, lines 766-771: the entry found under the lock
getConnection(id) == id \in connections

\* line 439 with lines 784-786: callback(id), on the connection's thread; the
\* callback looks its id up with Network::getConnection
connect_callback ==
    /\ tpc = "callback"
    /\ connectionsMutex = "free"
    /\ onConnected' = [calls |-> onConnected.calls + 1,
                        found |-> getConnection(connId),
                        handshake |-> handshake]
    /\ tpc' = "loop"
    /\ UNCHANGED <<state, thread, readBatch, recvBuffer, mutex,
                   sockTotalUpload, sockTotalDownload, closes, treg,
                   streamPos, appended, delivered, discarded, dropped,
                   downloadCounted, lastRecv, recvCalls>>
    /\ UNCHANGED <<httpVars, netVars, hostVars>>
    /\ UNCHANGED <<handshake, srvVars, regVars, closerVars>>
    /\ UNCHANGED sentVars

\* line 349
listenLoop_while ==
    /\ tpc = "loop"
    /\ tpc' = IF state = "CONNECTED" THEN "recvsocket" ELSE "leave"
    /\ UNCHANGED <<state, thread, readBatch, recvBuffer, mutex,
                   sockTotalUpload, sockTotalDownload, closes, treg,
                   streamPos, appended, delivered, discarded, dropped,
                   downloadCounted, lastRecv, recvCalls>>
    /\ UNCHANGED <<httpVars, netVars, hostVars>>
    /\ UNCHANGED <<cbVars, srvVars, regVars, closerVars>>
    /\ UNCHANGED sentVars

\* lines 350-379: recvsocket returns a batch (only while the descriptor is
\* open), 0, a transient error (continue) or a fatal error (break)
listenLoop_recvsocket ==
    /\ tpc = "recvsocket"
    /\ \/ /\ closes = 0
          /\ \E size \in 1..Min(MaxBatch, MaxStream - streamPos) :
                /\ recvBuffer' = StreamBytes(streamPos, size)
                /\ streamPos' = streamPos + size
          /\ tpc' = "append"
       \/ /\ closes = 0
          /\ tpc' = "loop"
          /\ UNCHANGED <<recvBuffer, streamPos>>
       \/ /\ tpc' = "leave"
          /\ UNCHANGED <<recvBuffer, streamPos>>
    /\ UNCHANGED <<state, thread, readBatch, mutex, sockTotalUpload,
                   sockTotalDownload, closes, treg, appended, delivered,
                   discarded, dropped, downloadCounted, lastRecv, recvCalls>>
    /\ UNCHANGED <<httpVars, netVars, hostVars>>
    /\ UNCHANGED <<cbVars, srvVars, regVars, closerVars>>
    /\ UNCHANGED sentVars

\* the test of line 385 without the size of the new batch
overflow_NoSize(batch, size) == Len(batch) > MAX_INBUF

\* line 385
overflow(batch, size) == Len(batch) + size > MAX_INBUF

\* lines 391-393
insert(batch, data) == batch \o data

\* lines 383-394: under the mutex, the overflow test, the insert and the
\* read of totalDownload
listenLoop_append ==
    /\ tpc = "append"
    /\ mutex = "free"
    /\ IF overflow(readBatch, Len(recvBuffer))
       THEN /\ dropped' = recvBuffer
            /\ recvBuffer' = <<>>
            /\ tpc' = "leave"
            /\ UNCHANGED <<readBatch, appended, treg, mutex>>
       ELSE /\ readBatch' = insert(readBatch, recvBuffer)
            /\ appended' = appended \o recvBuffer
            /\ treg' = sockTotalDownload
            /\ mutex' = "thread"
            /\ tpc' = "addDownload"
            /\ UNCHANGED <<dropped, recvBuffer>>
    /\ UNCHANGED <<state, thread, sockTotalUpload,
                   sockTotalDownload, closes, streamPos, delivered,
                   discarded, downloadCounted, lastRecv, recvCalls>>
    /\ UNCHANGED <<httpVars, netVars, hostVars>>
    /\ UNCHANGED <<cbVars, srvVars, regVars, closerVars>>
    /\ UNCHANGED sentVars

\* lines 394-395: the write of totalDownload += size, then the unlock
listenLoop_addDownload ==
    /\ tpc = "addDownload"
    /\ sockTotalDownload' = treg + Len(recvBuffer)
    /\ downloadCounted' = downloadCounted + Len(recvBuffer)
    /\ mutex' = "free"
    /\ tpc' = "loop"
    /\ treg' = 0
    /\ recvBuffer' = <<>>
    /\ UNCHANGED <<state, thread, readBatch, sockTotalUpload,
                   closes, streamPos, appended, delivered, discarded,
                   dropped, lastRecv, recvCalls>>
    /\ UNCHANGED <<httpVars, netVars, hostVars>>
    /\ UNCHANGED <<cbVars, srvVars, regVars, closerVars>>
    /\ UNCHANGED sentVars

\* line 401
listenLoop_leave ==
    /\ tpc = "leave"
    /\ state' = "CLOSED"
    /\ tpc' = "release"
    /\ UNCHANGED <<thread, readBatch, recvBuffer, mutex, sockTotalUpload,
                   sockTotalDownload, closes, treg, streamPos, appended,
                   delivered, discarded, dropped, downloadCounted, lastRecv,
                   recvCalls>>
    /\ UNCHANGED <<httpVars, netVars, hostVars>>
    /\ UNCHANGED <<cbVars, srvVars, regVars, closerVars>>
    /\ UNCHANGED sentVars

\* lines 402-408
listenLoop_release ==
    /\ tpc = "release"
    /\ closes' = closes + 1
    /\ tpc' = "done"
    /\ UNCHANGED <<state, thread, readBatch, recvBuffer, mutex,
                   sockTotalUpload, sockTotalDownload, treg, streamPos,
                   appended, delivered, discarded, dropped, downloadCounted,
                   lastRecv, recvCalls>>
    /\ UNCHANGED <<httpVars, netVars, hostVars>>
    /\ UNCHANGED <<cbVars, srvVars, regVars, closerVars>>
    /\ UNCHANGED sentVars

\* ------------------------------------------------------------------------
\* SocketConnection: the operations called by the host thread
\* ------------------------------------------------------------------------
\* the host thread holds a pointer from Network::getConnection
HasConnection == connId \in connections

\* recv() with || in place of && in the test of line 447
recvReturn_Or(st, batch, length) ==
    IF st # "CONNECTED" \/ batch = <<>> THEN -1
    ELSE Min(Len(batch), length)

\* lines 447-450: the value recv() returns
recvReturn(st, batch, length) ==
    IF st # "CONNECTED" /\ batch = <<>> THEN -1
    ELSE Min(Len(batch), length)

\* line 451: the bytes copied to outBuffer
recvCopy(batch, size) == SubSeq(batch, 1, size)

\* recv() erasing one element too many at line 452
recvErase_OneMore(batch, size) == SubSeq(batch, size + 2, Len(batch))

\* line 452: the queue after the erase
recvErase(batch, size) == SubSeq(batch, size + 1, Len(batch))

\* SocketConnection::recv, lines 445-454
recv ==
    /\ hpc = "idle"
    /\ HasConnection
    /\ mutex = "free"
    /\ \E length \in 0..MaxRecvLen :
          LET size == recvReturn(state, readBatch, length)
          IN /\ lastRecv' = [st |-> state, before |-> Len(readBatch),
                             length |-> length, ret |-> size]
             /\ IF size = -1
                THEN UNCHANGED <<readBatch, delivered, recvCalls>>
                ELSE /\ delivered' = delivered \o recvCopy(readBatch, size)
                     /\ readBatch' = recvErase(readBatch, size)
                     /\ recvCalls' = IF size > 0 THEN recvCalls + 1
                                     ELSE recvCalls
    /\ UNCHANGED <<state, thread, recvBuffer, mutex, sockTotalUpload,
                   sockTotalDownload, closes, tpc, treg, streamPos, appended,
                   discarded, dropped, downloadCounted>>
    /\ UNCHANGED <<httpVars, netVars, hostVars>>
    /\ UNCHANGED <<cbVars, srvVars, regVars, closerVars>>
    /\ UNCHANGED sentVars

\* SocketConnection::available, lines 515-518
available == Len(readBatch)

\* return from close(): to the caller of close(), to the return -1 of
\* send() or to the loop of closeSocket, line 669
closeReturn ==
    /\ hpc' = IF hreg.op = "closeSocket" THEN "closeSocket_unlock" ELSE "idle"
    /\ hreg' = IF hreg.op = "closeSocket" THEN hreg ELSE NoOp
    /\ lastSend' = IF hreg.op = "send"
                   THEN [length |-> hreg.length, ret |-> -1,
                         entry |-> "CONNECTED", st |-> state,
                         up0 |-> hreg.up0, up1 |-> sockTotalUpload,
                         sent |-> hreg.wire, fatal |-> TRUE]
                   ELSE lastSend

\* a call of close(discardAll)
close_call ==
    /\ hpc = "idle"
    /\ HasConnection
    /\ \E discardAll \in BOOLEAN :
          hreg' = [NoOp EXCEPT !.op = "close", !.discardAll = discardAll]
    /\ hpc' = "close_lock"
    /\ UNCHANGED <<sends, lastSend>>
    /\ UNCHANGED <<httpVars, connVars, netVars>>
    /\ UNCHANGED <<cbVars, srvVars, regVars, closerVars>>
    /\ UNCHANGED sentVars

\* lines 521-526
close_lock ==
    /\ hpc = "close_lock"
    /\ mutex = "free"
    /\ readBatch' = IF hreg.discardAll THEN <<>> ELSE readBatch
    /\ discarded' = IF hreg.discardAll THEN discarded \o readBatch
                    ELSE discarded
    /\ IF state = "CLOSED"
       THEN /\ closeReturn
            /\ UNCHANGED state
       ELSE /\ state' = "CLOSED"
            /\ hpc' = "close_release"
            /\ UNCHANGED <<hreg, lastSend>>
    /\ UNCHANGED <<thread, recvBuffer, mutex, sockTotalUpload,
                   sockTotalDownload, closes, tpc, treg, streamPos, appended,
                   delivered, dropped, downloadCounted, lastRecv, recvCalls>>
    /\ UNCHANGED sends
    /\ UNCHANGED <<httpVars, netVars>>
    /\ UNCHANGED <<cbVars, srvVars, regVars, closerVars>>
    /\ UNCHANGED sentVars

\* lines 527-533
close_release ==
    /\ hpc = "close_release"
    /\ closes' = closes + 1
    /\ hpc' = "close_join"
    /\ UNCHANGED <<state, thread, readBatch, recvBuffer, mutex,
                   sockTotalUpload, sockTotalDownload, tpc, treg, streamPos,
                   appended, delivered, discarded, dropped, downloadCounted,
                   lastRecv, recvCalls>>
    /\ UNCHANGED <<hreg, sends, lastSend>>
    /\ UNCHANGED <<httpVars, netVars>>
    /\ teardowns' = teardowns + 1
    /\ UNCHANGED cpc
    /\ UNCHANGED <<cbVars, srvVars, regVars>>
    /\ UNCHANGED sentVars

\* lines 534-537: join blocks until the background thread has finished
close_join ==
    /\ hpc = "close_join"
    /\ thread = "set" => tpc = "done"
    /\ thread' = "null"
    /\ closeReturn
    /\ UNCHANGED <<state, readBatch, recvBuffer, mutex, sockTotalUpload,
                   sockTotalDownload, closes, tpc, treg, streamPos, appended,
                   delivered, discarded, dropped, downloadCounted, lastRecv,
                   recvCalls>>
    /\ UNCHANGED sends
    /\ UNCHANGED <<httpVars, netVars>>
    /\ UNCHANGED <<cbVars, srvVars, regVars, closerVars>>
    /\ UNCHANGED sentVars

\* send() entered in every state but CLOSED
sendAllowed_NotClosed(st) == st # "CLOSED"

\* line 456: the state in which send() goes on to write
sendAllowed(st) == st = "CONNECTED"

\* lines 455-460
send_begin ==
    /\ hpc = "idle"
    /\ HasConnection
    /\ sends < MaxSends
    /\ sends' = sends + 1
    /\ \E length \in 1..MaxSendLen :
          IF ~sendAllowed(state)
          THEN /\ lastSend' = [length |-> length, ret |-> -1,
                                entry |-> state, st |-> state,
                                up0 |-> sockTotalUpload,
                                up1 |-> sockTotalUpload,
                                sent |-> <<>>, fatal |-> FALSE]
               /\ UNCHANGED <<hpc, hreg>>
          ELSE /\ hpc' = "send_loop"
               /\ hreg' = [NoOp EXCEPT !.op = "send", !.length = length,
                                        !.up0 = sockTotalUpload]
               /\ UNCHANGED lastSend
    /\ UNCHANGED <<httpVars, connVars, netVars>>
    /\ UNCHANGED <<cbVars, srvVars, regVars, closerVars>>
    /\ UNCHANGED sentVars

\* results of one sendsocket call: the bytes sent (only while the descriptor
\* is open), 0, or SOCKET_ERROR (-1) with an errno that is retried or not
SendResults(toSend) ==
    {[sent |-> -1, retry |-> TRUE], [sent |-> -1, retry |-> FALSE],
     [sent |-> 0, retry |-> FALSE]}
    \cup {[sent |-> n, retry |-> FALSE] :
             n \in (IF closes = 0 THEN 1..toSend ELSE {})}

\* lines 467-470: the bytes still to send, at most INT_MAX in one call
toSend(length, total) == Min(length - total, INT_MAX)

\* static_cast<int> of a size_t: the value modulo the width of int
toInt(x) ==
    LET half == INT_MAX + 1
    IN ((x + half) % (2 * half)) - half

\* line 507: total += sent
sendTotal(total, sent) == total + sent

\* lines 461-511: one iteration of the loop, or the statements after it;
\* sendsocket is handed the bytes from inBuffer + total on
send_loop ==
    /\ hpc = "send_loop"
    /\ IF hreg.total < hreg.length
       THEN \E res \in SendResults(toSend(hreg.length, hreg.total)) :
               /\ IF res.sent = 0 \/ (res.sent = -1 /\ ~res.retry)
                  THEN /\ hpc' = "close_lock"
                       /\ hreg' = [hreg EXCEPT !.discardAll = FALSE]
                  ELSE /\ hpc' = "send_loop"
                       /\ hreg' =
                            IF res.sent = -1 THEN hreg
                            ELSE [hreg EXCEPT
                                    !.total = sendTotal(@, res.sent),
                                    !.wire = @ \o [k \in 1..res.sent |->
                                                      hreg.total + k]]
               /\ UNCHANGED <<sockTotalUpload, lastSend, uploaded>>
       ELSE /\ sockTotalUpload' = sockTotalUpload + hreg.total
            /\ uploaded' = uploaded + hreg.total
            /\ lastSend' = [length |-> hreg.length, ret |-> toInt(hreg.total),
                             entry |-> "CONNECTED", st |-> state,
                             up0 |-> hreg.up0,
                             up1 |-> sockTotalUpload + hreg.total,
                             sent |-> hreg.wire, fatal |-> FALSE]
            /\ hpc' = "idle"
            /\ hreg' = NoOp
    /\ UNCHANGED <<state, thread, readBatch, recvBuffer, mutex,
                   sockTotalDownload, closes, tpc, treg, streamPos, appended,
                   delivered, discarded, dropped, downloadCounted, lastRecv,
                   recvCalls>>
    /\ UNCHANGED sends
    /\ UNCHANGED <<httpVars, netVars>>
    /\ UNCHANGED <<cbVars, srvVars, regVars, closerVars>>

\* ------------------------------------------------------------------------
\* Network
\* ------------------------------------------------------------------------
\* nextConnection++ that leaves the counter as it was
postIncrement_Same(n) == n

\* lines 783, 792 and 800: the counter after id = next++
postIncrement(n) == n + 1

\* calls of Network::connect so far: the ids handed out less the one
\* addConnection took
connectCalls ==
    Len(issued) - (IF origin = "accepted" /\ connId # 0 THEN 1 ELSE 0)

\* Network::connect, lines 782-783: the registry lock and the new id
connect ==
    /\ hpc = "idle"
    /\ connectionsMutex = "free"
    /\ connectCalls < MaxConnects
    /\ connectionsMutex' = "host"
    /\ hreg' = [NoOp EXCEPT !.op = "connect", !.size = nextConnection]
    /\ issued' = Append(issued, nextConnection)
    /\ nextConnection' = postIncrement(nextConnection)
    /\ hpc' = "connect_resolve"
    /\ UNCHANGED <<connections, netTotalUpload, netTotalDownload, connId,
                   origin, erased>>
    /\ UNCHANGED <<sends, lastSend>>
    /\ UNCHANGED <<httpVars, connVars>>
    /\ UNCHANGED <<cbVars, srvVars, closerVars>>
    /\ UNCHANGED <<servers, nextServer, issuedServers>>
    /\ UNCHANGED sentVars

\* line 784 with SocketConnection::connect, lines 559-585 and 435-443:
\* getaddrinfo and socket, which throw on failure (the lock_guard then
\* releases the lock), and the start of the connection's thread. One
\* connection is modelled: a connect() called when it exists fails.
connect_resolve ==
    /\ hpc = "connect_resolve"
    /\ \E ok \in BOOLEAN :
          IF ok /\ origin = "none"
          THEN /\ thread' = "set"
               /\ tpc' = "connectSocket"
               /\ connId' = hreg.size
               /\ origin' = "client"
               /\ hpc' = "connect_register"
               /\ UNCHANGED <<hreg, connectionsMutex>>
          ELSE /\ hpc' = "idle"
               /\ hreg' = NoOp
               /\ connectionsMutex' = "free"
               /\ UNCHANGED <<thread, tpc, connId, origin>>
    /\ UNCHANGED <<state, readBatch, recvBuffer, mutex, sockTotalUpload,
                   sockTotalDownload, closes, treg, streamPos, appended,
                   delivered, discarded, dropped, downloadCounted, lastRecv,
                   recvCalls>>
    /\ UNCHANGED <<connections, nextConnection, netTotalUpload,
                   netTotalDownload, erased>>
    /\ UNCHANGED <<sends, lastSend>>
    /\ UNCHANGED httpVars
    /\ UNCHANGED <<cbVars, srvVars, regVars, closerVars>>
    /\ UNCHANGED sentVars

\* lines 787-788: connections[id] = socket, the unlock and the return
connect_register ==
    /\ hpc = "connect_register"
    /\ connections' = connections \cup {hreg.size}
    /\ connectionsMutex' = "free"
    /\ hpc' = "idle"
    /\ hreg' = NoOp
    /\ UNCHANGED <<nextConnection, netTotalUpload, netTotalDownload, connId,
                   origin, erased>>
    /\ UNCHANGED <<sends, lastSend>>
    /\ UNCHANGED <<httpVars, connVars>>
    /\ UNCHANGED <<cbVars, srvVars, regVars, closerVars>>
    /\ UNCHANGED sentVars

\* lines 643-646: SocketConnection::startClient, lines 430-433, called by
\* the accept thread of the Listener, or of a Listener that is not part of
\* the specification (apc = "none")
startClient ==
    /\ origin = "none"
    /\ apc \in {"none", "startClient"}
    /\ apc' = IF apc = "none" THEN "none" ELSE "addConnection"
    /\ acceptedBy' = IF apc = "none" THEN 0 ELSE sid
    /\ origin' = "accepted"
    /\ state' = "CONNECTED"
    /\ thread' = "set"
    /\ tpc' = "loop"
    /\ UNCHANGED <<readBatch, recvBuffer, mutex, sockTotalUpload,
                   sockTotalDownload, closes, treg, streamPos, appended,
                   delivered, discarded, dropped, downloadCounted, lastRecv,
                   recvCalls>>
    /\ UNCHANGED <<connections, nextConnection, connectionsMutex,
                   netTotalUpload, netTotalDownload, connId, erased>>
    /\ UNCHANGED <<httpVars, hostVars>>
    /\ UNCHANGED <<open, sthread, clients, clientsMutex, sdesc, sid, handled,
                   serverClosed, closedByServer>>
    /\ UNCHANGED <<cbVars, regVars, closerVars>>
    /\ UNCHANGED sentVars

\* line 648: Network::addConnection, lines 798-803, called by the accept
\* thread that called startClient
addConnection ==
    /\ origin = "accepted"
    /\ connId = 0
    /\ apc \in {"none", "addConnection"}
    /\ apc' = IF apc = "none" THEN "none" ELSE "push_back"
    /\ connectionsMutex = "free"
    /\ connId' = nextConnection
    /\ issued' = Append(issued, nextConnection)
    /\ nextConnection' = postIncrement(nextConnection)
    /\ connections' = connections \cup {nextConnection}
    /\ UNCHANGED <<connectionsMutex, netTotalUpload, netTotalDownload, origin,
                   erased>>
    /\ UNCHANGED <<httpVars, connVars, hostVars>>
    /\ UNCHANGED <<open, sthread, clients, clientsMutex, sdesc, sid, handled,
                   acceptedBy, serverClosed, closedByServer>>
    /\ UNCHANGED <<servers, nextServer, issuedServers>>
    /\ UNCHANGED <<cbVars, closerVars>>
    /\ UNCHANGED sentVars

\* lines 830-837: the servers that are not open are erased
eraseServers == {id \in servers : open}

\* the end of Network::update: the loop over servers and the release of
\* connectionsMutex
updateReturn ==
    /\ hpc' = "idle"
    /\ hreg' = NoOp
    /\ connectionsMutex' = "free"
    /\ servers' = eraseServers

\* Network::update, lines 813-818: requests->update(), the lock, and the
\* whole of the function when no connection is registered
update_begin ==
    /\ hpc = "idle"
    /\ connectionsMutex = "free"
    /\ RequestsUpdate
    /\ IF connections = {}
       THEN /\ servers' = eraseServers
            /\ UNCHANGED <<hpc, hreg, connectionsMutex>>
       ELSE /\ hpc' = "pullDownload"
            /\ hreg' = [NoOp EXCEPT !.op = "update"]
            /\ connectionsMutex' = "host"
            /\ UNCHANGED servers
    /\ UNCHANGED <<sends, lastSend>>
    /\ UNCHANGED <<connections, nextConnection, netTotalUpload,
                   netTotalDownload, connId, origin, erased>>
    /\ UNCHANGED connVars
    /\ UNCHANGED <<nextServer, issued, issuedServers>>
    /\ UNCHANGED <<cbVars, srvVars, closerVars>>
    /\ UNCHANGED sentVars

\* SocketConnection::pullDownload, line 547
pullDownload_read ==
    /\ hpc = "pullDownload"
    /\ hreg' = [hreg EXCEPT !.size = sockTotalDownload]
    /\ hpc' = "pullDownload_reset"
    /\ UNCHANGED <<sends, lastSend>>
    /\ UNCHANGED <<httpVars, connVars, netVars>>
    /\ UNCHANGED <<cbVars, srvVars, regVars, closerVars>>
    /\ UNCHANGED sentVars

\* SocketConnection::pullDownload, lines 548-549, and line 820
pullDownload_reset ==
    /\ hpc = "pullDownload_reset"
    /\ sockTotalDownload' = 0
    /\ netTotalDownload' = netTotalDownload + hreg.size
    /\ hpc' = "pullUpload"
    /\ UNCHANGED <<hreg, sends, lastSend>>
    /\ UNCHANGED <<state, thread, readBatch, recvBuffer, mutex,
                   sockTotalUpload, closes, tpc, treg, streamPos, appended,
                   delivered, discarded, dropped, downloadCounted, lastRecv,
                   recvCalls>>
    /\ UNCHANGED <<connections, nextConnection, connectionsMutex,
                   netTotalUpload, connId, origin, erased>>
    /\ UNCHANGED httpVars
    /\ UNCHANGED <<cbVars, srvVars, regVars, closerVars>>
    /\ UNCHANGED sentVars

\* SocketConnection::pullUpload, lines 540-544, and line 821
pullUpload ==
    /\ hpc = "pullUpload"
    /\ netTotalUpload' = netTotalUpload + sockTotalUpload
    /\ sockTotalUpload' = 0
    /\ hpc' = "available"
    /\ UNCHANGED <<hreg, sends, lastSend>>
    /\ UNCHANGED <<state, thread, readBatch, recvBuffer, mutex,
                   sockTotalDownload, closes, tpc, treg, streamPos, appended,
                   delivered, discarded, dropped, downloadCounted, lastRecv,
                   recvCalls>>
    /\ UNCHANGED <<connections, nextConnection, connectionsMutex,
                   netTotalDownload, connId, origin, erased>>
    /\ UNCHANGED httpVars
    /\ UNCHANGED <<cbVars, srvVars, regVars, closerVars>>
    /\ UNCHANGED sentVars

\* line 822: socket->available() == 0
update_available ==
    /\ hpc = "available"
    /\ mutex = "free"
    /\ IF available = 0
       THEN /\ hpc' = "getState"
            /\ UNCHANGED <<hreg, connectionsMutex, servers>>
       ELSE updateReturn
    /\ UNCHANGED <<sends, lastSend>>
    /\ UNCHANGED <<connections, nextConnection, netTotalUpload,
                   netTotalDownload, connId, origin, erased>>
    /\ UNCHANGED <<httpVars, connVars>>
    /\ UNCHANGED <<nextServer, issued, issuedServers>>
    /\ UNCHANGED <<cbVars, srvVars, closerVars>>
    /\ UNCHANGED sentVars

\* lines 823-824: the state the erase rests on
removable(st) == st = "CLOSED"

\* lines 823-825: socket->getState() == CLOSED, then the erase
\* line 823 drops the shared_ptr of the registry; the accept thread holds
\* another one, `socket` of line 642, until the end of its loop body
lastOwner == apc \notin {"push_back", "handler", "scope_end"}

update_getState ==
    /\ hpc = "getState"
    /\ IF removable(state)
       THEN /\ connections' = connections \ {connId}
            /\ erased' = [done |-> TRUE, queue |-> Len(readBatch),
                          st |-> state]
            /\ IF lastOwner
               THEN /\ hpc' = "destroy"
                    /\ UNCHANGED <<hreg, connectionsMutex, servers>>
               ELSE updateReturn
       ELSE /\ updateReturn
            /\ UNCHANGED <<connections, erased>>
    /\ UNCHANGED <<sends, lastSend>>
    /\ UNCHANGED <<nextConnection, netTotalUpload, netTotalDownload, connId,
                   origin>>
    /\ UNCHANGED <<httpVars, connVars>>
    /\ UNCHANGED <<nextServer, issued, issuedServers>>
    /\ UNCHANGED <<cbVars, srvVars, closerVars>>
    /\ UNCHANGED sentVars

\* ~SocketConnection, lines 416-424, run by the erase of the last owner
destroy ==
    /\ hpc = "destroy"
    /\ closes' = IF state # "CLOSED" THEN closes + 1 ELSE closes
    /\ hpc' = "destroy_join"
    /\ UNCHANGED <<hreg, sends, lastSend>>
    /\ UNCHANGED <<state, thread, readBatch, recvBuffer, mutex,
                   sockTotalUpload, sockTotalDownload, tpc, treg, streamPos,
                   appended, delivered, discarded, dropped, downloadCounted,
                   lastRecv, recvCalls>>
    /\ UNCHANGED <<httpVars, netVars>>
    /\ UNCHANGED <<cbVars, srvVars, regVars, closerVars>>
    /\ UNCHANGED sentVars

\* ~SocketConnection, lines 425-427, then the end of Network::update
destroy_join ==
    /\ hpc = "destroy_join"
    /\ thread = "set" => tpc = "done"
    /\ updateReturn
    /\ UNCHANGED <<sends, lastSend>>
    /\ UNCHANGED <<connections, nextConnection, netTotalUpload,
                   netTotalDownload, connId, origin, erased>>
    /\ UNCHANGED <<httpVars, connVars>>
    /\ UNCHANGED <<nextServer, issued, issuedServers>>
    /\ UNCHANGED <<cbVars, srvVars, closerVars>>
    /\ UNCHANGED sentVars

\* ------------------------------------------------------------------------
\* SocketConnection::close() called by a thread other than the host
\* ------------------------------------------------------------------------
\* a call of close() by another thread of the application
oclose_call ==
    /\ cpc = "idle"
    /\ apc # "close_client"
    /\ HasConnection
    /\ cpc' = "close_lock"
    /\ UNCHANGED teardowns
    /\ UNCHANGED <<httpVars, connVars, netVars, hostVars>>
    /\ UNCHANGED <<cbVars, srvVars, regVars>>
    /\ UNCHANGED sentVars

\* lines 521-526, discardAll = false
oclose_lock ==
    /\ cpc = "close_lock"
    /\ mutex = "free"
    /\ IF state = "CLOSED"
       THEN /\ cpc' = "idle"
            /\ UNCHANGED state
       ELSE /\ state' = "CLOSED"
            /\ cpc' = "close_release"
    /\ UNCHANGED <<thread, readBatch, recvBuffer, mutex, sockTotalUpload,
                   sockTotalDownload, closes, tpc, treg, streamPos, appended,
                   delivered, discarded, dropped, downloadCounted, lastRecv,
                   recvCalls>>
    /\ UNCHANGED teardowns
    /\ UNCHANGED <<httpVars, netVars, hostVars>>
    /\ UNCHANGED <<cbVars, srvVars, regVars>>
    /\ UNCHANGED sentVars

\* lines 527-533
oclose_release ==
    /\ cpc = "close_release"
    /\ closes' = closes + 1
    /\ teardowns' = teardowns + 1
    /\ cpc' = "close_join"
    /\ UNCHANGED <<state, thread, readBatch, recvBuffer, mutex,
                   sockTotalUpload, sockTotalDownload, tpc, treg, streamPos,
                   appended, delivered, discarded, dropped, downloadCounted,
                   lastRecv, recvCalls>>
    /\ UNCHANGED <<httpVars, netVars, hostVars>>
    /\ UNCHANGED <<cbVars, srvVars, regVars>>
    /\ UNCHANGED sentVars

\* lines 534-537
oclose_join ==
    /\ cpc = "close_join"
    /\ thread = "set" => tpc = "done"
    /\ thread' = "null"
    /\ cpc' = "idle"
    /\ UNCHANGED <<state, readBatch, recvBuffer, mutex, sockTotalUpload,
                   sockTotalDownload, closes, tpc, treg, streamPos, appended,
                   delivered, discarded, dropped, downloadCounted, lastRecv,
                   recvCalls>>
    /\ UNCHANGED teardowns
    /\ UNCHANGED <<httpVars, netVars, hostVars>>
    /\ UNCHANGED <<cbVars, srvVars, regVars>>
    /\ UNCHANGED sentVars

\* ------------------------------------------------------------------------
\* SocketTcpSServer
\* ------------------------------------------------------------------------
\* Network::openServer, lines 791-796, with SocketTcpSServer::openServer,
\* lines 699-735, and startListen, lines 614-615; socket, setsockopt and bind
\* throw on failure, after the id was taken. One Listener is modelled: a
\* second openServer fails.
openServer ==
    /\ hpc = "idle"
    /\ Len(issuedServers) < MaxServers
    /\ issuedServers' = Append(issuedServers, nextServer)
    /\ nextServer' = postIncrement(nextServer)
    /\ \E ok \in BOOLEAN :
          IF ok /\ sid = 0
          THEN /\ sid' = nextServer
               /\ open' = TRUE
               /\ sthread' = "set"
               /\ apc' = "listen"
               /\ servers' = servers \cup {nextServer}
          ELSE UNCHANGED <<sid, open, sthread, apc, servers>>
    /\ UNCHANGED <<clients, clientsMutex, sdesc, handled, acceptedBy,
                   serverClosed, closedByServer>>
    /\ UNCHANGED issued
    /\ UNCHANGED <<httpVars, connVars, netVars, hostVars>>
    /\ UNCHANGED <<cbVars, closerVars>>
    /\ UNCHANGED sentVars

\* lines 617-621: listen fails on a released descriptor
accept_listen ==
    /\ apc = "listen"
    /\ \E ok \in BOOLEAN :
          /\ ok => sdesc = 0
          /\ apc' = IF ok THEN "while" ELSE "close"
    /\ UNCHANGED <<open, sthread, clients, clientsMutex, sdesc, sid, handled,
                   acceptedBy, serverClosed, closedByServer>>
    /\ UNCHANGED <<httpVars, connVars, netVars, hostVars>>
    /\ UNCHANGED <<cbVars, regVars, closerVars>>
    /\ UNCHANGED sentVars

\* line 623
accept_while ==
    /\ apc = "while"
    /\ apc' = IF open THEN "accept" ELSE "done"
    /\ UNCHANGED <<open, sthread, clients, clientsMutex, sdesc, sid, handled,
                   acceptedBy, serverClosed, closedByServer>>
    /\ UNCHANGED <<httpVars, connVars, netVars, hostVars>>
    /\ UNCHANGED <<cbVars, regVars, closerVars>>
    /\ UNCHANGED sentVars

\* lines 629-640: accept returns a client (only while the descriptor is
\* open), is interrupted (EINTR, continue) or fails (close(), break)
accept_accept ==
    /\ apc = "accept"
    /\ \/ /\ sdesc = 0
          /\ origin = "none"
          /\ apc' = "startClient"
       \/ apc' = "while"
       \/ apc' = "close"
    /\ UNCHANGED <<open, sthread, clients, clientsMutex, sdesc, sid, handled,
                   acceptedBy, serverClosed, closedByServer>>
    /\ UNCHANGED <<httpVars, connVars, netVars, hostVars>>
    /\ UNCHANGED <<cbVars, regVars, closerVars>>
    /\ UNCHANGED sentVars

\* lines 649-652
accept_push_back ==
    /\ apc = "push_back"
    /\ clientsMutex = "free"
    /\ clients' = Append(clients, connId)
    /\ apc' = "handler"
    /\ UNCHANGED <<open, sthread, clientsMutex, sdesc, sid, handled,
                   acceptedBy, serverClosed, closedByServer>>
    /\ UNCHANGED <<httpVars, connVars, netVars, hostVars>>
    /\ UNCHANGED <<cbVars, regVars, closerVars>>
    /\ UNCHANGED sentVars

\* line 653: handler(id); the handler looks its connection up with
\* Network::getConnection (lines 766-771)
accept_handler ==
    /\ apc = "handler"
    /\ connectionsMutex = "free"
    /\ handled' = Append(handled, [id |-> connId,
                                   found |-> getConnection(connId),
                                   st |-> state])
    /\ apc' = "scope_end"
    /\ UNCHANGED <<open, sthread, clients, clientsMutex, sdesc, sid,
                   acceptedBy, serverClosed, closedByServer>>
    /\ UNCHANGED <<httpVars, connVars, netVars, hostVars>>
    /\ UNCHANGED <<cbVars, regVars, closerVars>>
    /\ UNCHANGED sentVars

\* line 654: `socket` goes out of scope; when update() has erased the
\* connection meanwhile this is the last owner and ~SocketConnection, lines
\* 415-428, runs here
accept_scope_end ==
    /\ apc = "scope_end"
    /\ getConnection(connId) \/ (thread = "set" => tpc = "done")
    /\ closes' = IF ~getConnection(connId) /\ state # "CLOSED"
                 THEN closes + 1 ELSE closes
    /\ apc' = "while"
    /\ UNCHANGED <<open, sthread, clients, clientsMutex, sdesc, sid, handled,
                   acceptedBy, serverClosed, closedByServer>>
    /\ UNCHANGED <<state, thread, readBatch, recvBuffer, mutex,
                   sockTotalUpload, sockTotalDownload, tpc, treg, streamPos,
                   appended, delivered, discarded, dropped, downloadCounted,
                   lastRecv, recvCalls>>
    /\ UNCHANGED <<httpVars, netVars, hostVars>>
    /\ UNCHANGED <<cbVars, regVars, closerVars>>
    /\ UNCHANGED sentVars

\* the client closeSocket closes at lines 665-669: the first id of clients
\* that getConnection still finds
clientToClose == clients # <<>> /\ getConnection(clients[1])

\* lines 618 and 638 with line 659: close() called by the accept thread
accept_close ==
    /\ apc = "close"
    /\ IF open
       THEN /\ open' = FALSE
            /\ apc' = "close_clients"
       ELSE /\ apc' = "done"
            /\ UNCHANGED open
    /\ UNCHANGED <<sthread, clients, clientsMutex, sdesc, sid, handled,
                   acceptedBy, serverClosed, closedByServer>>
    /\ UNCHANGED <<httpVars, connVars, netVars, hostVars>>
    /\ UNCHANGED <<cbVars, regVars, closerVars>>
    /\ UNCHANGED sentVars

\* lines 663-668 on the accept thread: the lock, the lookup, the call of
\* client->close()
accept_close_clients ==
    /\ apc = "close_clients"
    /\ clientsMutex = "free"
    /\ connectionsMutex = "free"
    /\ IF clientToClose
       THEN /\ cpc = "idle"
            /\ cpc' = "close_lock"
            /\ clientsMutex' = "accept"
            /\ closedByServer' = TRUE
            /\ apc' = "close_client"
       ELSE /\ apc' = "close_clear"
            /\ UNCHANGED <<cpc, clientsMutex, closedByServer>>
    /\ UNCHANGED <<open, sthread, clients, sdesc, sid, handled, acceptedBy,
                   serverClosed>>
    /\ UNCHANGED teardowns
    /\ UNCHANGED <<httpVars, connVars, netVars, hostVars>>
    /\ UNCHANGED <<cbVars, regVars>>
    /\ UNCHANGED sentVars

\* lines 669-670 on the accept thread: client->close() has returned
accept_close_unlock ==
    /\ apc = "close_client"
    /\ cpc = "idle"
    /\ clientsMutex' = "free"
    /\ apc' = "close_clear"
    /\ UNCHANGED <<open, sthread, clients, sdesc, sid, handled, acceptedBy,
                   serverClosed, closedByServer>>
    /\ UNCHANGED <<httpVars, connVars, netVars, hostVars>>
    /\ UNCHANGED <<cbVars, regVars, closerVars>>
    /\ UNCHANGED sentVars

\* line 671 on the accept thread
accept_close_clear ==
    /\ apc = "close_clear"
    /\ clients' = <<>>
    /\ apc' = "close_release"
    /\ UNCHANGED <<open, sthread, clientsMutex, sdesc, sid, handled,
                   acceptedBy, serverClosed, closedByServer>>
    /\ UNCHANGED <<httpVars, connVars, netVars, hostVars>>
    /\ UNCHANGED <<cbVars, regVars, closerVars>>
    /\ UNCHANGED sentVars

\* lines 673-679 on the accept thread
accept_close_release ==
    /\ apc = "close_release"
    /\ sdesc' = sdesc + 1
    /\ apc' = "close_join"
    /\ UNCHANGED <<open, sthread, clients, clientsMutex, sid, handled,
                   acceptedBy, serverClosed, closedByServer>>
    /\ UNCHANGED <<httpVars, connVars, netVars, hostVars>>
    /\ UNCHANGED <<cbVars, regVars, closerVars>>
    /\ UNCHANGED sentVars

\* lines 681-683 on the accept thread: thread->join() on the calling thread
\* itself throws std::system_error (resource_deadlock_would_occur); nothing
\* catches it and std::terminate ends the process
accept_close_join ==
    /\ apc = "close_join"
    /\ apc' = "terminated"
    /\ UNCHANGED <<open, sthread, clients, clientsMutex, sdesc, sid, handled,
                   acceptedBy, serverClosed, closedByServer>>
    /\ UNCHANGED <<httpVars, connVars, netVars, hostVars>>
    /\ UNCHANGED <<cbVars, regVars, closerVars>>
    /\ UNCHANGED sentVars

\* the host thread holds a pointer from Network::getServer
HasServer == sid \in servers

\* SocketTcpSServer::close, lines 687-689, with line 659
closeSocket_exchange ==
    /\ hpc = "idle"
    /\ HasServer
    /\ IF open
       THEN /\ open' = FALSE
            /\ hpc' = "closeSocket_clients"
            /\ hreg' = [NoOp EXCEPT !.op = "closeSocket"]
       ELSE UNCHANGED <<open, hpc, hreg>>
    /\ UNCHANGED <<sthread, clients, clientsMutex, sdesc, apc, sid, handled,
                   acceptedBy, serverClosed, closedByServer>>
    /\ UNCHANGED <<sends, lastSend>>
    /\ UNCHANGED <<httpVars, connVars, netVars>>
    /\ UNCHANGED <<cbVars, regVars, closerVars>>
    /\ UNCHANGED sentVars

\* lines 663-668: the lock, the lookup, the call of client->close()
closeSocket_clients ==
    /\ hpc = "closeSocket_clients"
    /\ clientsMutex = "free"
    /\ connectionsMutex = "free"
    /\ IF clientToClose
       THEN /\ clientsMutex' = "host"
            /\ closedByServer' = TRUE
            /\ hpc' = "close_lock"
       ELSE /\ hpc' = "closeSocket_clear"
            /\ UNCHANGED <<clientsMutex, closedByServer>>
    /\ UNCHANGED <<open, sthread, clients, sdesc, apc, sid, handled,
                   acceptedBy, serverClosed>>
    /\ UNCHANGED <<hreg, sends, lastSend>>
    /\ UNCHANGED <<httpVars, connVars, netVars>>
    /\ UNCHANGED <<cbVars, regVars, closerVars>>
    /\ UNCHANGED sentVars

\* lines 669-670: client->close() has returned, the lock is released
closeSocket_unlock ==
    /\ hpc = "closeSocket_unlock"
    /\ clientsMutex' = "free"
    /\ hpc' = "closeSocket_clear"
    /\ UNCHANGED <<open, sthread, clients, sdesc, apc, sid, handled,
                   acceptedBy, serverClosed, closedByServer>>
    /\ UNCHANGED <<hreg, sends, lastSend>>
    /\ UNCHANGED <<httpVars, connVars, netVars>>
    /\ UNCHANGED <<cbVars, regVars, closerVars>>
    /\ UNCHANGED sentVars

\* line 671
closeSocket_clear ==
    /\ hpc = "closeSocket_clear"
    /\ clients' = <<>>
    /\ hpc' = "closeSocket_release"
    /\ UNCHANGED <<open, sthread, clientsMutex, sdesc, apc, sid, handled,
                   acceptedBy, serverClosed, closedByServer>>
    /\ UNCHANGED <<hreg, sends, lastSend>>
    /\ UNCHANGED <<httpVars, connVars, netVars>>
    /\ UNCHANGED <<cbVars, regVars, closerVars>>
    /\ UNCHANGED sentVars

\* lines 673-679
closeSocket_release ==
    /\ hpc = "closeSocket_release"
    /\ sdesc' = sdesc + 1
    /\ hpc' = "closeSocket_join"
    /\ UNCHANGED <<open, sthread, clients, clientsMutex, apc, sid, handled,
                   acceptedBy, serverClosed, closedByServer>>
    /\ UNCHANGED <<hreg, sends, lastSend>>
    /\ UNCHANGED <<httpVars, connVars, netVars>>
    /\ UNCHANGED <<cbVars, regVars, closerVars>>
    /\ UNCHANGED sentVars

\* lines 681-685: join blocks until the accept thread has finished
closeSocket_join ==
    /\ hpc = "closeSocket_join"
    /\ sthread = "set" => apc = "done"
    /\ sthread' = "null"
    /\ serverClosed' = TRUE
    /\ hpc' = "idle"
    /\ hreg' = NoOp
    /\ UNCHANGED <<open, clients, clientsMutex, sdesc, apc, sid, handled,
                   acceptedBy, closedByServer>>
    /\ UNCHANGED <<sends, lastSend>>
    /\ UNCHANGED <<httpVars, connVars, netVars>>
    /\ UNCHANGED <<cbVars, regVars, closerVars>>
    /\ UNCHANGED sentVars

\* ------------------------------------------------------------------------
\* Specifications
\* ------------------------------------------------------------------------
NextHttp == Get \/ Post \/ update_begin

SpecHttp == Init /\ [][NextHttp]_vars

\* an update() in which the running transfer completes or fails
TransferEnds == update_begin /\ xfer = "running" /\ xfer' # "running"

\* the same host when it keeps calling update() and every started transfer
\* eventually completes or fails
SpecHttpLive ==
    Init /\ [][NextHttp]_vars /\ WF_vars(update_begin) /\ WF_vars(TransferEnds)

ThreadStep ==
    \/ connectSocket_begin \/ connectSocket_call \/ connectSocket_result
    \/ connectSocket_failed \/ connect_thread \/ connect_callback
    \/ listenLoop_while \/ listenLoop_recvsocket \/ listenLoop_append
    \/ listenLoop_addDownload \/ listenLoop_leave \/ listenLoop_release

CloseStep == close_call \/ close_lock \/ close_release \/ close_join

UpdateStep ==
    \/ update_begin \/ pullDownload_read \/ pullDownload_reset \/ pullUpload
    \/ update_available \/ update_getState \/ destroy \/ destroy_join

AcceptStep == startClient \/ addConnection

ConnectStep == connect \/ connect_resolve \/ connect_register

\* one connection: its receive thread against a host thread that calls
\* recv() and close() on it
NextConn ==
    ThreadStep \/ AcceptStep \/ ConnectStep \/ recv \/ CloseStep

SpecConn == Init /\ [][NextConn]_vars

\* the same connection in the registry of a Network whose host thread also
\* calls update()
NextNet == NextConn \/ UpdateStep

SpecNet == Init /\ [][NextNet]_vars

\* the registries: connections are made, closed and reclaimed by update(),
\* listeners are opened, and ids are handed out to both, while nothing
\* calls recv() and the accept thread that calls addConnection belongs to a
\* Listener opened before
NextReg ==
    \/ ThreadStep \/ AcceptStep \/ ConnectStep \/ CloseStep \/ UpdateStep
    \/ openServer

SpecReg == Init /\ [][NextReg]_vars

SendStep == send_begin \/ send_loop

OtherCloseStep == oclose_lock \/ oclose_release \/ oclose_join

\* one connection closed by the host thread and by another thread
NextClose ==
    \/ ThreadStep \/ AcceptStep \/ ConnectStep \/ CloseStep
    \/ oclose_call \/ OtherCloseStep

SpecClose == Init /\ [][NextClose]_vars

AcceptLoopStep ==
    \/ accept_listen \/ accept_while \/ accept_accept \/ accept_push_back
    \/ accept_handler \/ accept_scope_end

AcceptCloseStep ==
    \/ accept_close \/ accept_close_clients \/ accept_close_unlock
    \/ accept_close_clear \/ accept_close_release \/ accept_close_join

CloseSocketStep ==
    \/ closeSocket_exchange \/ closeSocket_clients \/ closeSocket_unlock
    \/ closeSocket_clear \/ closeSocket_release \/ closeSocket_join

\* a Listener with its accept thread, the connection it accepts or an
\* outbound one, and a host thread that opens and closes the Listener,
\* connects, closes the connection and calls update()
NextServer ==
    \/ openServer \/ AcceptLoopStep \/ AcceptCloseStep \/ CloseSocketStep
    \/ OtherCloseStep
    \/ ThreadStep \/ AcceptStep \/ ConnectStep \/ CloseStep \/ UpdateStep

SpecServer == Init /\ [][NextServer]_vars

\* one connection: its receive thread against a host thread that calls
\* send() and close() on it
NextSend ==
    ThreadStep \/ AcceptStep \/ ConnectStep \/ SendStep \/ CloseStep

SpecSend == Init /\ [][NextSend]_vars

\* ------------------------------------------------------------------------
\* Properties of the request queue
\* ------------------------------------------------------------------------
\* ids of the requests one of whose callbacks has been invoked
Completed == {log[i].id : i \in DOMAIN log}

\* requests that were started and have had no callback yet
InFlight == started \ Completed

\* C1: callbacks fire in submission order, and no request is started while an
\* earlier-submitted one is still waiting in the pending FIFO.
C1_FifoOrder ==
    /\ \A i, j \in DOMAIN log : i < j => log[i].id <= log[j].id
    /\ \A k \in DOMAIN requests : \A r \in started : r < requests[k].id

\* C2: at most one request is in flight: a request is never started while
\* another started request has not yet completed or failed.
C2_AtMostOneActive == Cardinality(InFlight) <= 1

\* C3: a transfer that completes with status 200 calls onResponse with the
\* body the transfer wrote, any other status s calls onReject(s), and the
\* callback called belongs to the request the transfer was started for.
C3_OutcomeDispatch ==
    \A i \in DOMAIN log :
        log[i].cause = "done" =>
            /\ log[i].id = log[i].xreq
            /\ IF log[i].xcode = HTTP_OK
               THEN log[i].kind = "response" /\ log[i].body = log[i].xbody
               ELSE log[i].kind = "reject" /\ log[i].code = log[i].xcode

\* C4: a transport-level failure (a failing poll, or a transfer reported done
\* with a transport error and response code 0) calls onReject(502).
C4_TransportFailureCode ==
    \A i \in DOMAIN log :
        (\/ log[i].cause \in {"poll", "start"}
         \/ (log[i].cause = "done" /\ log[i].xres = "CURLE_ERR"
             /\ log[i].xcode = 0))
        => (log[i].kind = "reject" /\ log[i].code = HTTP_BAD_GATEWAY)

\* C5: whenever get(), post() or update() has returned, a non-empty pending
\* FIFO implies that a request is active.
C5_QueueProgress == (requests # <<>>) => (InFlight # {})

\* ------------------------------------------------------------------------
\* Properties of the connection
\* ------------------------------------------------------------------------
Rank(st) ==
    CASE st = "INITIAL" -> 0
      [] st = "CONNECTING" -> 1
      [] st = "CONNECTED" -> 2
      [] st = "CLOSED" -> 3

Range(seq) == {seq[i] : i \in DOMAIN seq}

\* the appended bytes that close(discardAll = true) has not discarded
Kept == SelectSeq(appended, LAMBDA b : b \notin Range(discarded))

\* C6: the state only moves forward along INITIAL, CONNECTING, CONNECTED,
\* CLOSED; in particular a CLOSED connection never leaves CLOSED.
C6_StateMonotonic == [][Rank(state) <= Rank(state')]_vars

\* C7 as stated: recv() returns -1 only with an empty queue in state CLOSED,
\* never with an empty queue in another state, and min(maxLen, buffered)
\* whenever bytes are buffered.
C7_NoDataOnlyWhenClosed ==
    lastRecv.st # "none" =>
        /\ lastRecv.ret = -1 =>
              (lastRecv.before = 0 /\ lastRecv.st = "CLOSED")
        /\ (lastRecv.before = 0 /\ lastRecv.st # "CLOSED") =>
              lastRecv.ret # -1
        /\ lastRecv.before > 0 =>
              lastRecv.ret = Min(lastRecv.length, lastRecv.before)

\* C7 amended: recv() returns -1 exactly when the queue is empty and the
\* state is not CONNECTED (INITIAL, CONNECTING or CLOSED); with an empty
\* queue in state CONNECTED it returns 0, and whenever bytes are buffered,
\* also after CLOSED, it returns min(maxLen, buffered).
C7_NoDataWhenNotConnected ==
    lastRecv.st # "none" =>
        /\ lastRecv.ret = -1 <=>
              (lastRecv.before = 0 /\ lastRecv.st # "CONNECTED")
        /\ (lastRecv.before = 0 /\ lastRecv.st = "CONNECTED") =>
              lastRecv.ret = 0
        /\ lastRecv.before > 0 =>
              lastRecv.ret = Min(lastRecv.length, lastRecv.before)

\* a recv() on a CLOSED connection that returned buffered bytes
C7_Witness ==
    lastRecv.st = "CLOSED" /\ lastRecv.before > 0 /\ lastRecv.ret > 0

\* C8: the bytes returned by the recv() calls, followed by the bytes still
\* queued, are the appended bytes in the order of their arrival, less those
\* discarded by close(true); so the returned bytes are a prefix of the
\* appended ones as long as nothing was discarded, each recv() returns
\* min(maxLen, buffered) bytes, and available() is appended minus delivered
\* minus discarded.
C8_StreamIntegrity ==
    /\ delivered \o readBatch = Kept
    /\ discarded = <<>> =>
          (/\ Len(delivered) <= Len(appended)
           /\ delivered = SubSeq(appended, 1, Len(delivered)))
    /\ lastRecv.ret >= 0 =>
          lastRecv.ret = Min(lastRecv.length, lastRecv.before)
    /\ available = Len(appended) - Len(delivered) - Len(discarded)

\* several recv() calls have returned bytes, in between appends, and bytes
\* are still queued
C8_Witness ==
    /\ recvCalls >= 2
    /\ Len(delivered) >= 2
    /\ readBatch # <<>>

\* C9: the queue never holds more than MAX_INBUF bytes; a batch that would
\* exceed it is not appended and not counted, the receive loop is left and
\* the state becomes CLOSED, and the bytes queued before stay readable.
C9_BoundedInbound ==
    /\ Len(readBatch) <= MAX_INBUF
    /\ dropped # <<>> =>
          /\ Range(dropped) \cap Range(appended) = {}
          /\ Range(dropped) \cap (Range(readBatch) \cup Range(delivered)) = {}
          /\ downloadCounted = Len(appended)
          /\ tpc \in {"leave", "release", "done"}
          /\ tpc \in {"release", "done"} => state = "CLOSED"
          /\ delivered \o readBatch = Kept
          /\ readBatch # <<>> => recvReturn(state, readBatch, 1) = 1

\* a batch was dropped, the connection is CLOSED and bytes are still queued
C9_Witness ==
    dropped # <<>> /\ state = "CLOSED" /\ readBatch # <<>> /\ tpc = "done"

\* C10: Network::update erases a connection only when, at the erase, it is
\* CLOSED and its inbound queue is empty.
C10_DeferredRemoval ==
    erased.done => (erased.queue = 0 /\ erased.st = "CLOSED")

\* ------------------------------------------------------------------------
\* Properties of send()
\* ------------------------------------------------------------------------
\* C11: a send() entered on a CONNECTED connection either returns its length
\* after sendsocket was handed bytes 1..length once each in order, and adds
\* exactly the length to the upload counter, or it met a fatal result, came
\* back through close() with the state CLOSED, returns -1 and leaves the
\* upload counter as it was, whatever had been written before.
C11_SendAllOrNothing ==
    lastSend.entry = "CONNECTED" =>
        \/ /\ ~lastSend.fatal
           /\ lastSend.ret = lastSend.length
           /\ lastSend.sent = [k \in 1..lastSend.length |-> k]
           /\ lastSend.up1 = lastSend.up0 + lastSend.length
        \/ /\ lastSend.fatal
           /\ lastSend.ret = -1
           /\ lastSend.st = "CLOSED"
           /\ lastSend.up1 = lastSend.up0

\* C12: a send() called in a state other than CONNECTED returns -1 at once,
\* without a sendsocket call and with the state, the inbound queue and the
\* upload and download counters unchanged.
C12_SendNotConnected ==
    [][(sends' = sends + 1 /\ state # "CONNECTED") =>
          /\ lastSend'.ret = -1
          /\ lastSend'.sent = <<>>
          /\ hpc' = "idle"
          /\ UNCHANGED <<state, readBatch, sockTotalUpload,
                         sockTotalDownload, closes>>]_vars

\* a send() on a registered connection that is still CONNECTING
C12_Witness ==
    lastSend.entry = "CONNECTING" /\ lastSend.ret = -1

\* ------------------------------------------------------------------------
\* Properties of close()
\* ------------------------------------------------------------------------
\* C14: whenever a close() of the connection returns to its caller, the
\* connection's background thread has finished: it is at the end of its
\* function and takes no further step on the connection.
C14_CloseSynchronous ==
    [][(hreg.op = "close" /\ hpc \in {"close_lock", "close_join"}
        /\ hpc' = "idle") => tpc' = "done"]_vars

\* ------------------------------------------------------------------------
\* Properties of the byte accounting
\* ------------------------------------------------------------------------
\* C15: the values pullDownload() has returned, which Network::update sums
\* into its total, together with what the connection's counter still holds,
\* never exceed the number of bytes appended to the inbound queue: no byte
\* is drained or counted twice.
C15_NoDoubleCount ==
    /\ netTotalDownload <= Len(appended)
    /\ netTotalDownload + sockTotalDownload <= Len(appended)

\* ------------------------------------------------------------------------
\* Properties of the facade
\* ------------------------------------------------------------------------
\* the connection ids handed out are distinct and increasing, and so are the
\* listener ids
Increasing(seq) == \A i, j \in DOMAIN seq : i < j => seq[i] < seq[j]

C17_ConnectCallback ==
    /\ (origin = "client" /\ hpc # "connect_register" /\ ~erased.done)
          => getConnection(connId)
    /\ onConnected.calls <= 1
    /\ onConnected.calls = 1 =>
          (onConnected.handshake = "ok" /\ onConnected.found)
    /\ handshake = "failed" => onConnected.calls = 0

\* the callback of an outbound connection has run and found its id, and
\* the connection has gone on to receive bytes
C17_Witness ==
    /\ onConnected.calls = 1
    /\ onConnected.found
    /\ origin = "client"
    /\ appended # <<>>

\* the host thread is inside a call that blocks: getaddrinfo (line 567,
\* reached from line 784) or the join of ~SocketConnection (line 426,
\* reached from the erase of line 824)
HostBlocking == hpc \in {"connect_resolve", "destroy_join"}

\* C20: no thread is inside an address resolution, a socket call or a thread
\* join while it holds the registry lock.
C20_NoBlockingUnderLock == ~(connectionsMutex = "host" /\ HostBlocking)

\* ------------------------------------------------------------------------
\* Properties of the Listener
\* ------------------------------------------------------------------------
\* C13: the teardown of a connection (lines 527-537) is executed by at most
\* one close() call, the teardown of a Listener (lines 661-684) by at most
\* one, and a close() that has returned leaves the connection CLOSED and
\* the Listener not open.
C13_CloseIdempotent ==
    /\ teardowns <= 1
    /\ sdesc <= 1
    /\ serverClosed => ~open

\* C18: once a close() of the Listener has returned, the connection it
\* accepted, if still registered, is CLOSED, and a connection closed by
\* closeSocket is one this Listener accepted.
C18_ClosesOwnConnections ==
    /\ (serverClosed /\ acceptedBy = sid /\ sid # 0 /\ getConnection(connId))
          => state = "CLOSED"
    /\ closedByServer => (acceptedBy = sid /\ sid # 0)

\* C19: the accept thread never ends in a join of itself, it has finished
\* only with the Listener not open, and a close() of the Listener returns
\* only after the accept thread has finished.
C19_ListenerTermination ==
    /\ apc # "terminated"
    /\ apc = "done" => ~open
    /\ serverClosed => (apc = "done" /\ ~open)

\* ------------------------------------------------------------------------
\* C22: a close() that finds the connection already CLOSED changes nothing,
\* whatever discardAll is: the state stays CLOSED and the buffered inbound
\* bytes, both counters and the descriptor are left as they were.
C22_CloseWhenClosed ==
    [][(hpc = "close_lock" /\ hreg.op = "close" /\ state = "CLOSED"
        /\ hpc' # hpc)
       => /\ state' = "CLOSED"
          /\ UNCHANGED <<readBatch, sockTotalUpload, sockTotalDownload,
                         closes>>]_vars

\* ------------------------------------------------------------------------
\* C23: over any sequence of get(), post() and update() calls and any poll
\* results, no submitted request has a callback invoked more than once.
C23_ConsumedOnce ==
    \A i, j \in DOMAIN log : (log[i].id = log[j].id) => (i = j)

\* ------------------------------------------------------------------------
\* C25: closesocket is called at most once on the descriptor of a connection,
\* whichever of close(), a fatal send(), a failed connect, the leaving
\* receive loop and the destructor run, and in whatever order.
C25_SingleRelease == closes <= 1

\* ------------------------------------------------------------------------
\* C21: the handler of startListen is called at most once per accepted
\* connection, and at each call the receive loop of the connection has been
\* started and getConnection(id) finds the connection.
C21_AcceptOrdering ==
    /\ \A i, j \in DOMAIN handled :
          (handled[i].id = handled[j].id) => (i = j)
    /\ \A i \in DOMAIN handled :
          /\ handled[i].st \in {"CONNECTED", "CLOSED"}
          /\ handled[i].found

\* ------------------------------------------------------------------------
\* Network::getTotalUpload, lines 805-807
getTotalUpload == reqTotalUpload + netTotalUpload

\* Network::getTotalDownload, lines 809-811
getTotalDownload == reqTotalDownload + netTotalDownload

\* no thread is inside an operation of the connection or of the facade
Quiescent ==
    /\ hpc = "idle"
    /\ cpc = "idle"
    /\ tpc \in {"none", "done"}

\* update() has run since the connection went quiet: it has erased the
\* connection, or it has pulled both counters of the registered connection
Pulled ==
    \/ erased.done
    \/ getConnection(connId) /\ sockTotalDownload = 0 /\ sockTotalUpload = 0

\* C26: once the connection is quiescent and update() has run, the download
\* total of the facade equals the number of bytes appended to the inbound
\* queue and its upload total the sum of the lengths of the successful
\* send() calls, also when the connection has been removed; getTotalDownload
\* and getTotalUpload are these totals plus those of the request queue.
C26_Conservation ==
    (Quiescent /\ Pulled) =>
       /\ getTotalDownload = reqTotalDownload + Len(appended)
       /\ getTotalUpload = reqTotalUpload + uploaded

\* ------------------------------------------------------------------------
\* C24: when the host keeps calling update() and every started transfer
\* eventually completes or fails, every submitted request eventually has one
\* of its callbacks invoked.
C24_EventualCallback ==
    \A id \in 1..MaxReq : (nextId > id) ~> (id \in Completed)

====
